---- MODULE Spec2Model ----
(***************************************************************************)
(* Model of the ipj-ls-backend server: an express application over a      *)
(* lowdb JSON document, with a session per cookie, a duty registry, a     *)
(* ping workflow and a server-sent-events broadcast channel.              *)
(*                                                                         *)
(* The repository holds several revisions of the same server.  Two are    *)
(* modelled, selected by the variable rev, which never changes:           *)
(*   "full"  src/unnamed/part_000        (tester codes, duty, pings)      *)
(*   "live"  src/server.js lines 585-949 (duty with roles of the request  *)
(*           body, pings without the academie capability)                 *)
(* The other revisions repeat handlers of these two.                      *)
(*                                                                         *)
(* A request handler is cut at its await points.  Between two await       *)
(* points a handler runs alone (one JavaScript thread); at an await point *)
(* any other handler may run.  db.read() replaces db.data by the parsed   *)
(* file when it resolves; db.write() serialises db.data when it is called *)
(* and the file holds that text when it resolves; writes land in the      *)
(* order of their calls.                                                   *)
(***************************************************************************)
EXTENDS Integers, Sequences, FiniteSets, TLC

\* ------------------------------------------------------------------ bounds
MaxReqs == 2        \* request handlers in flight at once
MaxRequests == 4
MaxPings == 2       \* length of the pings log
MaxConns == 2       \* event-stream connections opened in a behaviour
MaxTime == 2        \* ticks of the clock
TicksPerDay == 2    \* ticks of the clock in one calendar day

\* ------------------------------------------------------ finite input sets
Revisions == {"full", "live", "mid"}
Users == {"u1", "u2"}
Sessions == {"s1", "s2"}
Reqs == 1..MaxReqs
Conns == 1..MaxConns
PingIds == {"p1", "p2"}
TestIds == {"t1", "t2"}
Codes == {"A1B2C3", "D4E5F6", "0708AF"}
Notes == {"help"}
TestTypeInputs == {"radio", "mdt", "academie", "quiz"}

\* ------------------------------------------------- configured role ids
testerRoles == {"rTester"}
editorRoles == {"rEditor"}
RADIO_INSTR_ROLE == "rRadio"
MDT_INSTR_ROLE == "rMdt"
TESTER_ROLE_ANY == "rAny"
\* role lists the identity provider may answer with
RoleLists == {{}, {"rRadio"}, {"rMdt", "rAny"}, {"rTester", "rEditor"}}

\* ---------------------------------------------------- JavaScript objects
EmptyObj == [k \in {} |-> k]
Put(o, k, v) == [x \in (DOMAIN o) \cup {k} |-> IF x = k THEN v ELSE o[x]]
Del(o, k) == [x \in (DOMAIN o) \ {k} |-> o[x]]
Values(o) == {o[k] : k \in DOMAIN o}

\* String(x).toLowerCase() on the type names the model sends
toLowerCase(t) ==
  CASE t = "RADIO" -> "radio"
    [] t = "MDT" -> "mdt"
    [] t = "Academie" -> "academie"
    [] OTHER -> t

\* new Date().toISOString(): <<date, time of day>>
toISOString(t) == <<t \div TicksPerDay, t % TicksPerDay>>

\* createdAt.split("T")[0]
DayOf(createdAt) == createdAt[1]

\* `${user.username}#${user.discriminator}`
TagOf(id) == <<id, "#0">>

NoUser == [id |-> "", discord_tag |-> "", isTester |-> FALSE, isEditor |-> FALSE,
           canRadio |-> FALSE, canMDT |-> FALSE]
Absent == [id |-> "", tag |-> ""]

\* db.data ||= { testers: {}, tests: {}, configs: {}, duty: {}, pings: [] }
EmptyDoc == [testers |-> EmptyObj, tests |-> EmptyObj, configs |-> EmptyObj,
             duty |-> EmptyObj, pings |-> <<>>]

VARIABLES
  rev,        \* the revision of the server that runs
  now,        \* the clock read by new Date()
  session,    \* req.session.user of each cookie
  mem,        \* db.data
  disk,       \* db.json
  wq,         \* db.write() calls that have not landed yet, oldest first
  reqs,       \* the request handlers: operation, position, locals, response
  started,    \* requests received so far
  conn,       \* state of each event-stream connection
  sseClients, \* the registry of broadcast clients
  inbox,      \* the events each connection has received
  bcast       \* the broadcasts made so far: count and last event

vars == <<rev, now, session, mem, disk, wq, reqs, started, conn, sseClients, inbox, bcast>>

Idle == [op |-> "idle", pc |-> "idle", s |-> "-", u |-> NoUser, arg |-> "-",
         loc |-> "-", status |-> 0]

Init ==
  /\ rev \in Revisions
  /\ now = 0
  /\ session = [s \in Sessions |-> NoUser]
  /\ mem = EmptyDoc
  /\ disk = EmptyDoc
  /\ wq = <<>>
  /\ reqs = [r \in Reqs |-> Idle]
  /\ started = 0
  /\ conn = [c \in Conns |-> "unused"]
  /\ sseClients = {}
  /\ inbox = [c \in Conns |-> <<>>]
  /\ bcast = [n |-> 0, last |-> [type |-> "none"]]

\* --------------------------------------------------------------- requests
Free(r) == reqs[r].pc \in {"idle", "done", "crashed"}

\* a request arrives and gets handler r, the first that is free
Arrive(r) ==
  /\ Free(r)
  /\ \A q \in Reqs : Free(q) => r <= q
  /\ started < MaxRequests
  /\ started' = started + 1

\* an answer that always reports success
RespondOk(r, op, s, u, arg, loc, code) ==
  [op |-> op, pc |-> "done", s |-> s, u |-> u, arg |-> arg, loc |-> loc,
   status |-> 200]

\* res.status(code).json(...): the handler is over
Respond(r, op, s, u, arg, loc, code) ==
  [op |-> op, pc |-> "done", s |-> s, u |-> u, arg |-> arg, loc |-> loc,
   status |-> code]

\* the handler is suspended at an await
Suspend(r, op, s, u, arg, loc, pc) ==
  [op |-> op, pc |-> pc, s |-> s, u |-> u, arg |-> arg, loc |-> loc,
   status |-> 0]

\* -------------------------------------------------------------- broadcast
Event(type, payload) == [type |-> type, payload |-> payload]

\* a broadcast that gives up when one write fails
DeliverOrAbort(box, cn, targets, ev) ==
  IF \E c \in targets : cn[c] /= "open" THEN box
  ELSE [c \in Conns |-> IF c \in targets THEN Append(box[c], ev) ELSE box[c]]

\* res.write on a connection: nothing arrives once the peer is gone
Deliver(box, cn, targets, ev) ==
  [c \in Conns |-> IF c \in targets /\ cn[c] = "open" THEN Append(box[c], ev) ELSE box[c]]

\* a broadcast that stops after the first client
OneTarget(clients) ==
  IF clients = {} THEN {}
  ELSE LET all == {c.res : c \in clients}
       IN {CHOOSE c \in all : \A d \in all : c <= d}

\* for (const c of sseClients) c.res.write(data)
BroadcastTargets(clients) == {c.res : c \in clients}

Broadcast(ev) ==
  /\ inbox' = Deliver(inbox, conn, BroadcastTargets(sseClients), ev)
  /\ bcast' = [n |-> bcast.n + 1, last |-> ev]

NoBroadcast == UNCHANGED <<inbox, bcast>>

\* ------------------------------------------------------------------ lowdb
\* db.write(): the text written is db.data as it is at the call
WriteCall(r, doc) == wq' = Append(wq, [h |-> r, snap |-> doc])

\* the oldest write lands; the handler awaiting it, if any, may go on
WriteLand ==
  /\ wq /= <<>>
  /\ disk' = Head(wq).snap
  /\ wq' = Tail(wq)
  /\ reqs' = IF Head(wq).h \in Reqs
             THEN [reqs EXCEPT ![Head(wq).h].pc = "written"]
             ELSE reqs
  /\ UNCHANGED <<rev, now, session, mem, started, conn, sseClients, inbox, bcast>>

\* new Date() advances
Tick ==
  /\ now < MaxTime
  /\ now' = now + 1
  /\ UNCHANGED <<rev, session, mem, disk, wq, reqs, started, conn, sseClients, inbox, bcast>>


\* ------------------------------------------------------------------ login
isTesterOf(roles) == \E x \in roles : x \in testerRoles \/ x = TESTER_ROLE_ANY
isEditorOf(roles) == \E x \in roles : x \in editorRoles
canRadioOf(roles) == RADIO_INSTR_ROLE \in roles
canMDTOf(roles) == MDT_INSTR_ROLE \in roles

\* req.session.user = { id, discord_tag, isTester, isEditor, canRadio, canMDT }
SessionUser(id, roles) ==
  [id |-> id, discord_tag |-> TagOf(id), isTester |-> isTesterOf(roles),
   isEditor |-> isEditorOf(roles), canRadio |-> canRadioOf(roles),
   canMDT |-> canMDTOf(roles)]

\* the revision of server.js lines 401-584: isTester and isEditor from the two
\* lists only; canRadio and canMDT are not set (undefined, falsy)
SessionUserMid(id, roles) ==
  [id |-> id, discord_tag |-> TagOf(id), isTester |-> (\E x \in roles : x \in testerRoles),
   isEditor |-> isEditorOf(roles), canRadio |-> FALSE, canMDT |-> FALSE]

\* Object.entries(db.data.testers).find(([, v]) => v.userId === user.id)
CodesOfUser(testers, id) == {c \in DOMAIN testers : testers[c].userId = id}

\* an allocation without the retry loop: any code
AnyCode(testers) == Codes

\* do code = randomBytes(3) ... while (db.data.testers[code]): any code not a key
FreeCodes(testers) == Codes \ DOMAIN testers

\* the identity the browser holding cookie s signs in as at the provider
OwnerOf(s) == IF s = "s1" THEN "u1" ELSE "u2"

\* a sign-in that also rewrites the roles of the identity's duty record
LoginRefreshesDuty(r, s, q, member) ==
  /\ Arrive(r)
  /\ q = "ok"
  /\ LET roles == IF member.ok THEN member.roles ELSE {}
         u == SessionUser(OwnerOf(s), roles)
     IN /\ session' = [session EXCEPT ![s] = u]
        /\ reqs' = [reqs EXCEPT ![r] = Suspend(r, "login", s, u, q, "-", "read")]
        /\ mem' = IF u.id \in DOMAIN mem.duty
                  THEN [mem EXCEPT !.duty[u.id].roles =
                          (IF u.canRadio THEN <<"radio">> ELSE <<>>) \o
                          (IF u.canMDT THEN <<"mdt">> ELSE <<>>) \o
                          (IF u.isTester \/ u.isEditor THEN <<"general">> ELSE <<>>)]
                  ELSE mem
  /\ UNCHANGED <<rev, now, disk, wq, conn, sseClients, inbox, bcast>>

\* GET /auth/discord/callback up to the session assignment (a request without
\* code returns before it touches anything).  q is what the provider gives:
\* "notoken" no access token, "nouser" a non-success answer to getUserInfo,
\* "ok" a profile; member is getGuildMember's answer.
Login(r, s, q, member) ==
  /\ Arrive(r)
  /\ LET roles == IF member.ok THEN member.roles ELSE {}   \* member?.roles || []
         u == IF rev = "mid" THEN SessionUserMid(OwnerOf(s), roles)
              ELSE SessionUser(OwnerOf(s), roles)
     IN CASE q = "notoken" ->
               /\ reqs' = [reqs EXCEPT ![r] = Respond(r, "login", s, NoUser, q, "OAuth failed", 200)]
               /\ UNCHANGED session
          [] q = "nouser" ->
               \* user.id throws: the handler's promise rejects, nothing answers
               /\ reqs' = [reqs EXCEPT ![r] = Suspend(r, "login", s, NoUser, q, "TypeError", "crashed")]
               /\ UNCHANGED session
          [] q = "ok" ->
               \* the "mid" revision sets req.session.user after the code logic
               /\ session' = IF rev = "mid" THEN session ELSE [session EXCEPT ![s] = u]
               /\ reqs' = [reqs EXCEPT ![r] =
                    IF rev \in {"full", "mid"} THEN Suspend(r, "login", s, u, q, "-", "read")
                    ELSE Respond(r, "login", s, u, q, "/dashboard", 302)]
  /\ UNCHANGED <<rev, now, mem, disk, wq, conn, sseClients, inbox, bcast>>

\* await db.read() resolves: the tester code logic up to await db.write()
LoginRead(r) ==
  /\ reqs[r].op = "login" /\ reqs[r].pc = "read"
  /\ LET u == reqs[r].u
         entry == CodesOfUser(disk.testers, u.id)
     IN IF u.isTester /\ entry = {}
        THEN \E code \in FreeCodes(disk.testers) :
               /\ mem' = [disk EXCEPT !.testers =
                            Put(@, code, [userId |-> u.id, createdAt |-> toISOString(now)])]
               /\ WriteCall(r, mem')
               /\ reqs' = [reqs EXCEPT ![r].pc = "write", ![r].loc = code]
               /\ UNCHANGED session
        ELSE /\ mem' = disk
             /\ session' = IF rev = "mid" THEN [session EXCEPT ![reqs[r].s] = u] ELSE session
             /\ reqs' = [reqs EXCEPT ![r] = Respond(r, "login", @.s, @.u, @.arg, "/dashboard", 302)]
             /\ UNCHANGED wq
  /\ UNCHANGED <<rev, now, disk, started, conn, sseClients, inbox, bcast>>

\* await db.write() resolved: res.redirect
LoginWritten(r) ==
  /\ reqs[r].op = "login" /\ reqs[r].pc = "written"
  /\ session' = IF rev = "mid" THEN [session EXCEPT ![reqs[r].s] = reqs[r].u] ELSE session
  /\ reqs' = [reqs EXCEPT ![r] = Respond(r, "login", @.s, @.u, @.arg, @.loc, 302)]
  /\ UNCHANGED <<rev, now, mem, disk, wq, started, conn, sseClients, inbox, bcast>>

\* a loop test that finds every candidate taken
TakenAlways(testers, code) == TRUE

\* while (db.data.testers[code]): the candidate is a key of the registry
Taken(testers, code) == code \in DOMAIN testers

\* await db.read() resolves, with the do/while loop of the tester code logic
\* taken one iteration at a time: the handler enters the loop or redirects
LoginReadLoop(r) ==
  /\ reqs[r].op = "login" /\ reqs[r].pc = "read"
  /\ mem' = disk
  /\ LET u == reqs[r].u IN
     reqs' = [reqs EXCEPT ![r] =
       IF u.isTester /\ CodesOfUser(disk.testers, u.id) = {}
       THEN Suspend(r, "login", @.s, @.u, @.arg, "-", "loop")
       ELSE Respond(r, "login", @.s, @.u, @.arg, "/dashboard", 302)]
  /\ UNCHANGED <<rev, now, session, disk, wq, started, conn, sseClients, inbox, bcast>>

\* one iteration: code = randomBytes(3) as hex; repeat while it is taken,
\* else store it and await db.write()
DrawCode(r, code) ==
  /\ reqs[r].op = "login" /\ reqs[r].pc = "loop"
  /\ IF Taken(mem.testers, code)
     THEN /\ reqs' = [reqs EXCEPT ![r].loc = code]
          /\ UNCHANGED <<mem, wq>>
     ELSE /\ mem' = [mem EXCEPT !.testers =
                       Put(@, code, [userId |-> reqs[r].u.id, createdAt |-> toISOString(now)])]
          /\ WriteCall(r, mem')
          /\ reqs' = [reqs EXCEPT ![r].pc = "write", ![r].loc = code]
  /\ UNCHANGED <<rev, now, session, disk, started, conn, sseClients, inbox, bcast>>

\* an iteration whose candidate is free
DrawFree(r, code) == code \notin DOMAIN mem.testers /\ DrawCode(r, code)

\* GET /check-tester: the flags cached in the session
CheckTester(r, s) ==
  /\ Arrive(r)
  /\ LET u == session[s] IN
     reqs' = [reqs EXCEPT ![r] =
       IF u = NoUser
       THEN Respond(r, "check-tester", s, u, "-", [authenticated |-> FALSE], 200)
       ELSE Respond(r, "check-tester", s, u, "-",
                    [authenticated |-> TRUE, discord_tag |-> u.discord_tag,
                     isTester |-> u.isTester, isEditor |-> u.isEditor,
                     canRadio |-> u.canRadio, canMDT |-> u.canMDT], 200)]
  /\ UNCHANGED <<rev, now, session, mem, disk, wq, conn, sseClients, inbox, bcast>>

\* a logout that leaves the session as it is
LogoutKeeps(r, s) ==
  /\ Arrive(r)
  /\ reqs' = [reqs EXCEPT ![r] = Respond(r, "logout", s, NoUser, "-", "/", 302)]
  /\ UNCHANGED <<rev, now, session, mem, disk, wq, conn, sseClients, inbox, bcast>>

\* GET /logout: req.session.destroy
Logout(r, s) ==
  /\ Arrive(r)
  /\ session' = [session EXCEPT ![s] = NoUser]
  /\ reqs' = [reqs EXCEPT ![r] = Respond(r, "logout", s, NoUser, "-", "/", 302)]
  /\ UNCHANGED <<rev, now, mem, disk, wq, conn, sseClients, inbox, bcast>>


\* ------------------------------------------------------------ duty registry
\* roles: [...(canRadio ? ["radio"] : []), ...(canMDT ? ["mdt"] : []),
\*         ...(isTester ? ["general"] : []), ...(isEditor ? ["general"] : [])]
DutyRoles(u) ==
  (IF u.canRadio THEN <<"radio">> ELSE <<>>) \o
  (IF u.canMDT THEN <<"mdt">> ELSE <<>>) \o
  (IF u.isTester THEN <<"general">> ELSE <<>>) \o
  (IF u.isEditor THEN <<"general">> ELSE <<>>)

\* roles.filter((x) => ["radio", "mdt", "general"].includes(x))
FilterRoles(body) == SelectSeq(body, LAMBDA x : x \in {"radio", "mdt", "general"})

\* the "live" revision: session flags, then the roles of the request body
DutyRolesLive(u, body) ==
  (IF u.canRadio THEN <<"radio">> ELSE <<>>) \o
  (IF u.canMDT THEN <<"mdt">> ELSE <<>>) \o
  (IF u.isTester THEN <<"general">> ELSE <<>>) \o
  FilterRoles(body)

BodyRoleInputs == {<<>>, <<"radio", "admin">>}

DutyRecord(u, roles) == [id |-> u.id, tag |-> u.discord_tag, roles |-> roles, since |-> toISOString(now)]

\* a registry that keeps the record an identity already has
DutyKeep(duty, u, roles) ==
  IF u.id \in DOMAIN duty THEN duty ELSE Put(duty, u.id, DutyRecord(u, roles))

\* db.data.duty[u.id] = {...}
DutyUpsert(duty, u, roles) == Put(duty, u.id, DutyRecord(u, roles))

\* a removal that empties the registry
DutyClear(duty, u) == EmptyObj

\* delete db.data.duty[u.id]
DutyRemove(duty, u) == Del(duty, u.id)

\* u.roles.includes(role)
Includes(seq, x) == \E i \in 1..Len(seq) : seq[i] = x

\* duty.some((u) => u.roles.includes(role))
SomeOnDuty(duty, role) == \E d \in Values(duty) : Includes(d.roles, role)

\* GET /duty/allow/:type of part_000
isCovered(duty, type) ==
  CASE type = "academie" -> SomeOnDuty(duty, "general")
    [] type = "radio" -> SomeOnDuty(duty, "radio")
    [] type = "mdt" -> SomeOnDuty(duty, "mdt")
    [] OTHER -> FALSE

\* GET /duty/allow/:type of the "live" revision
isCoveredLive(duty, type) ==
  IF type = "radio" THEN SomeOnDuty(duty, "radio")
  ELSE IF type = "mdt" THEN SomeOnDuty(duty, "mdt")
  ELSE FALSE

\* POST /duty/on: no await; db.write() is called and not awaited
DutyOn(r, s, body) ==
  /\ Arrive(r)
  /\ LET u == session[s] IN
     IF u = NoUser
     THEN /\ reqs' = [reqs EXCEPT ![r] = Respond(r, "duty/on", s, u, body, "Not auth", 401)]
          /\ UNCHANGED <<mem, wq>>
          /\ NoBroadcast
     ELSE /\ mem' = [mem EXCEPT !.duty =
                       DutyUpsert(@, u, IF rev = "full" THEN DutyRoles(u)
                                        ELSE DutyRolesLive(u, body))]
          /\ WriteCall(0, mem')
          /\ Broadcast(Event("duty-update", mem'.duty))
          /\ reqs' = [reqs EXCEPT ![r] = Respond(r, "duty/on", s, u, body, "ok", 200)]
  /\ UNCHANGED <<rev, now, session, disk, conn, sseClients>>

\* POST /duty/off
DutyOff(r, s) ==
  /\ Arrive(r)
  /\ LET u == session[s] IN
     IF u = NoUser
     THEN /\ reqs' = [reqs EXCEPT ![r] = Respond(r, "duty/off", s, u, "-", "Not auth", 401)]
          /\ UNCHANGED <<mem, wq>>
          /\ NoBroadcast
     ELSE /\ mem' = [mem EXCEPT !.duty = DutyRemove(@, u)]
          /\ WriteCall(0, mem')
          /\ Broadcast(Event("duty-update", mem'.duty))
          /\ reqs' = [reqs EXCEPT ![r] = Respond(r, "duty/off", s, u, "-", "ok", 200)]
  /\ UNCHANGED <<rev, now, session, disk, conn, sseClients>>

\* GET /duty/list and GET /duty/allow/:type up to await db.read()
DutyQuery(r, op, type) ==
  /\ Arrive(r)
  /\ reqs' = [reqs EXCEPT ![r] = Suspend(r, op, "-", NoUser, type, "-", "read")]
  /\ UNCHANGED <<rev, now, session, mem, disk, wq, conn, sseClients, inbox, bcast>>

\* GET /duty/list after the read: res.json(db.data.duty)
DutyListRead(r) ==
  /\ reqs[r].op = "duty/list" /\ reqs[r].pc = "read"
  /\ mem' = disk
  /\ reqs' = [reqs EXCEPT ![r] = Respond(r, "duty/list", "-", NoUser, "-", mem'.duty, 200)]
  /\ UNCHANGED <<rev, now, session, disk, wq, started, conn, sseClients, inbox, bcast>>

\* GET /duty/allow/:type after the read: res.json({ allowed, duty })
DutyAllowRead(r) ==
  /\ reqs[r].op = "duty/allow" /\ reqs[r].pc = "read"
  /\ mem' = disk
  /\ LET type == toLowerCase(reqs[r].arg)
         allowed == IF rev = "full" THEN isCovered(mem'.duty, type)
                    ELSE isCoveredLive(mem'.duty, type)
     IN reqs' = [reqs EXCEPT ![r] =
                   Respond(r, "duty/allow", "-", NoUser, @.arg, allowed, 200)]
  /\ UNCHANGED <<rev, now, session, disk, wq, started, conn, sseClients, inbox, bcast>>


\* ------------------------------------------------------------ event stream
LowestUnused == CHOOSE c \in Conns : conn[c] = "unused" /\ \A d \in Conns : conn[d] = "unused" => c <= d

\* a first write that is not a greeting
NoGreeting == Event("duty-update", EmptyObj)

\* res.write(`data: ${JSON.stringify({ type: "hello" })}\n\n`)
Hello == IF rev = "full" THEN [type |-> "hello"] ELSE Event("hello", [now |-> now])

\* GET /events: greet, register, remove at the close event
Events(r, s) ==
  /\ Arrive(r)
  /\ LET u == session[s] IN
     IF u = NoUser
     THEN /\ reqs' = [reqs EXCEPT ![r] = Respond(r, "events", s, u, "-", "-", 401)]
          /\ UNCHANGED <<conn, sseClients, inbox>>
     ELSE /\ \E c \in Conns : conn[c] = "unused"
          /\ LET c == LowestUnused IN
             /\ conn' = [conn EXCEPT ![c] = "open"]
             /\ inbox' = [inbox EXCEPT ![c] = Append(@, Hello)]
             /\ sseClients' = sseClients \cup {[res |-> c, id |-> u.id]}
             /\ reqs' = [reqs EXCEPT ![r] = Respond(r, "events", s, u, "-", c, 200)]
  /\ UNCHANGED <<rev, now, session, mem, disk, wq, bcast>>

\* the peer goes away; the close event has not been handled yet
Drop(c) ==
  /\ conn[c] = "open"
  /\ conn' = [conn EXCEPT ![c] = "dropped"]
  /\ UNCHANGED <<rev, now, session, mem, disk, wq, reqs, started, sseClients, inbox, bcast>>

\* a close event that leaves the client registered
CloseKeeps(c) ==
  /\ conn[c] = "dropped"
  /\ conn' = [conn EXCEPT ![c] = "closed"]
  /\ UNCHANGED <<rev, now, session, mem, disk, wq, reqs, started, sseClients, inbox, bcast>>

\* req.on("close", () => sseClients.delete(client))
Close(c) ==
  /\ conn[c] = "dropped"
  /\ conn' = [conn EXCEPT ![c] = "closed"]
  /\ sseClients' = {x \in sseClients : x.res /= c}
  /\ UNCHANGED <<rev, now, session, mem, disk, wq, reqs, started, inbox, bcast>>

\* ------------------------------------------------------------ ping workflow
\* const ping = { id, testType, note, requester, time, status: "open" }
NewPing(id, testType, note, u) ==
  [id |-> id, testType |-> testType, note |-> note,
   requester |-> [id |-> u.id, tag |-> u.discord_tag],
   time |-> toISOString(now), status |-> "open", acceptedBy |-> Absent]

\* the longest pings log of db.data, db.json and the writes under way
PingsHeld ==
  LET lens == {Len(mem.pings), Len(disk.pings)} \cup {Len(wq[i].snap.pings) : i \in 1..Len(wq)}
  IN CHOOSE n \in lens : \A m \in lens : m <= n

CallsReading == Cardinality({r \in Reqs : reqs[r].op = "call-instructor" /\ reqs[r].pc = "read"})

IdsOf(pings) == {pings[i].id : i \in 1..Len(pings)}

\* id: crypto.randomBytes(6).toString("hex"), 48 random bits: an id is taken
\* not to repeat one that a ping of the server still carries
UsedPingIds ==
  IdsOf(mem.pings) \cup IdsOf(disk.pings)
    \cup UNION {IdsOf(wq[i].snap.pings) : i \in 1..Len(wq)}
    \cup {reqs[r].loc.id : r \in {x \in Reqs : reqs[x].op = "call-instructor"
                                              /\ reqs[x].pc \in {"read", "write", "written"}}}

\* POST /call-instructor up to await db.read()
CallInstructor(r, s, testType, note, id) ==
  /\ Arrive(r)
  /\ PingsHeld + CallsReading < MaxPings
  /\ LET u == session[s]
         tt == IF rev = "full" THEN testType ELSE toLowerCase(testType)
     IN reqs' = [reqs EXCEPT ![r] =
          IF u = NoUser
          THEN Respond(r, "call-instructor", s, u, testType, "Not auth", 401)
          ELSE Suspend(r, "call-instructor", s, u, testType, NewPing(id, tt, note, u), "read")]
  /\ UNCHANGED <<rev, now, session, mem, disk, wq, conn, sseClients, inbox, bcast>>

\* POST /call-instructor when randomBytes gives an id no ping carries yet
CallInstructorFresh(r, s, testType, note, id) ==
  /\ id \notin UsedPingIds
  /\ CallInstructor(r, s, testType, note, id)

\* db.read() resolved: db.data.pings.push(ping); await db.write()
CallRead(r) ==
  /\ reqs[r].op = "call-instructor" /\ reqs[r].pc = "read"
  /\ mem' = [disk EXCEPT !.pings = Append(@, reqs[r].loc)]
  /\ WriteCall(r, mem')
  /\ reqs' = [reqs EXCEPT ![r].pc = "write"]
  /\ UNCHANGED <<rev, now, session, disk, started, conn, sseClients, inbox, bcast>>

\* db.write() resolved.  part_000 awaits the notification fetch, which resolves
\* (sent) or rejects (the handler ends there); the "live" revision sends none.
CallWritten(r, sent) ==
  /\ reqs[r].op = "call-instructor" /\ reqs[r].pc = "written"
  /\ IF rev = "full" /\ ~sent
     THEN /\ reqs' = [reqs EXCEPT ![r].pc = "crashed"]
          /\ NoBroadcast
     ELSE /\ Broadcast(Event("ping", reqs[r].loc))
          /\ reqs' = [reqs EXCEPT ![r] = Respond(r, @.op, @.s, @.u, @.arg, @.loc, 200)]
  /\ UNCHANGED <<rev, now, session, mem, disk, wq, started, conn, sseClients>>

\* a find that falls back on the first ping when none matches
FindOrFirst(pings, id) ==
  IF \E i \in 1..Len(pings) : pings[i].id = id
  THEN CHOOSE i \in 1..Len(pings) : pings[i].id = id /\ \A j \in 1..(i - 1) : pings[j].id /= id
  ELSE IF pings = <<>> THEN 0 ELSE 1

\* db.data.pings.find((p) => p.id === id): the index of the first match, 0 if none
FindPing(pings, id) ==
  IF \E i \in 1..Len(pings) : pings[i].id = id
  THEN CHOOSE i \in 1..Len(pings) : pings[i].id = id /\ \A j \in 1..(i - 1) : pings[j].id /= id
  ELSE 0

\* role checks that let everybody through
AckForbiddenNever(ping, u) == FALSE

\* role checks that also refuse a testType they do not know
AckForbiddenUnknown(ping, u) ==
  \/ ping.testType = "radio" /\ ~u.canRadio
  \/ ping.testType = "mdt" /\ ~u.canMDT
  \/ ping.testType = "academie" /\ ~(u.isTester \/ u.isEditor)
  \/ ping.testType \notin {"radio", "mdt", "academie"}

\* the role checks of POST /ack-ping in part_000: the 403 cases
AckForbidden(ping, u) ==
  \/ ping.testType = "radio" /\ ~u.canRadio
  \/ ping.testType = "mdt" /\ ~u.canMDT
  \/ ping.testType = "academie" /\ ~(u.isTester \/ u.isEditor)

\* the role checks of POST /ack-ping in the "live" revision
AckForbiddenLive(ping, u) ==
  \/ ping.testType = "radio" /\ ~u.canRadio
  \/ ping.testType = "mdt" /\ ~u.canMDT

\* an accept that records who accepted and leaves the status open
AcceptLeavesOpen(ping, u) == [ping EXCEPT !.acceptedBy = [id |-> u.id, tag |-> u.discord_tag]]

\* an accept that does not record who accepted
AcceptAnonymous(ping, u) == [ping EXCEPT !.status = "accepted"]

\* ping.status = "accepted"; ping.acceptedBy = { id: u.id, tag: u.discord_tag }
Accept(ping, u) ==
  [ping EXCEPT !.status = "accepted", !.acceptedBy = [id |-> u.id, tag |-> u.discord_tag]]

\* POST /ack-ping up to await db.read()
AckPing(r, s, id) ==
  /\ Arrive(r)
  /\ LET u == session[s] IN
     reqs' = [reqs EXCEPT ![r] =
       IF u = NoUser THEN Respond(r, "ack-ping", s, u, id, "Not auth", 401)
       ELSE Suspend(r, "ack-ping", s, u, id, "-", "read")]
  /\ UNCHANGED <<rev, now, session, mem, disk, wq, conn, sseClients, inbox, bcast>>

\* db.read() resolved: find, role checks, mutation, await db.write()
AckRead(r) ==
  /\ reqs[r].op = "ack-ping" /\ reqs[r].pc = "read"
  /\ LET u == reqs[r].u
         i == FindPing(disk.pings, reqs[r].arg)
     IN IF i = 0
        THEN /\ mem' = disk
             /\ reqs' = [reqs EXCEPT ![r] = Respond(r, @.op, @.s, @.u, @.arg, "Not found", 404)]
             /\ UNCHANGED wq
        ELSE IF (IF rev = "full" THEN AckForbidden(disk.pings[i], u)
                 ELSE AckForbiddenLive(disk.pings[i], u))
        THEN /\ mem' = disk
             /\ reqs' = [reqs EXCEPT ![r] = Respond(r, @.op, @.s, @.u, @.arg, disk.pings[i], 403)]
             /\ UNCHANGED wq
        ELSE /\ mem' = [disk EXCEPT !.pings[i] = Accept(@, u)]
             /\ WriteCall(r, mem')
             /\ reqs' = [reqs EXCEPT ![r].pc = "write", ![r].loc = mem'.pings[i]]
  /\ UNCHANGED <<rev, now, session, disk, started, conn, sseClients, inbox, bcast>>

\* db.write() resolved: broadcast({ type: "ack", payload: ping }); res.json({ ok: true })
AckWritten(r) ==
  /\ reqs[r].op = "ack-ping" /\ reqs[r].pc = "written"
  /\ Broadcast(Event("ack", reqs[r].loc))
  /\ reqs' = [reqs EXCEPT ![r] = Respond(r, @.op, @.s, @.u, @.arg, @.loc, 200)]
  /\ UNCHANGED <<rev, now, session, mem, disk, wq, started, conn, sseClients>>


\* ------------------------------------------------------------- submissions
CodeInputs == {"A1B2C3", "ZZZZZZ", "constructor"}
SubmitTypeInputs == {"radio", "mdt"}
ResultInputs == {"ADMIS", "RESPINS", "ABSENT"}
Undefined == "undefined"

\* property names every object literal and every JSON.parse result inherits
ObjectPrototype == {"constructor", "toString", "__proto__"}

\* o[k] in JavaScript: the own property, else the inherited one, else undefined
Lookup(o, k) ==
  IF k \in DOMAIN o THEN [kind |-> "own", value |-> o[k]]
  ELSE IF k \in ObjectPrototype THEN [kind |-> "inherited", value |-> k]
  ELSE [kind |-> "undefined", value |-> k]

\* entry.userId: a function of Object.prototype has no userId
UserIdOf(entry) == IF entry.kind = "own" THEN entry.value.userId ELSE Undefined

\* db.data.tests[id] = { id, testerCode, userId, testType, result, details, createdAt }
TestSubmission(id, testerCode, userId, testType, result) ==
  [id |-> id, testerCode |-> testerCode, userId |-> userId, testType |-> testType,
   result |-> result, details |-> "", createdAt |-> toISOString(now)]

\* id: crypto.randomBytes(6).toString("hex"), taken not to repeat an id that a
\* copy of the document or a handler holds
UsedTestIds ==
  DOMAIN mem.tests \cup DOMAIN disk.tests
    \cup UNION {DOMAIN wq[i].snap.tests : i \in 1..Len(wq)}
    \cup {reqs[r].arg.id : r \in {x \in Reqs : reqs[x].op = "submit-test"
                                     /\ reqs[x].pc \in {"read", "write", "written"}}}

\* the ids are interchangeable: a submission gets the first one not in use
FreshTestIds == IF "t1" \in UsedTestIds THEN TestIds \ UsedTestIds ELSE {"t1"}

\* POST /submit-test up to await db.read()
SubmitTest(r, testerCode, testType, result, id) ==
  /\ rev = "full"
  /\ Arrive(r)
  /\ id \in FreshTestIds
  /\ reqs' = [reqs EXCEPT ![r] =
       Suspend(r, "submit-test", "-", NoUser,
               [testerCode |-> testerCode, testType |-> testType, result |-> result, id |-> id],
               "-", "read")]
  /\ UNCHANGED <<rev, now, session, mem, disk, wq, conn, sseClients, inbox, bcast>>

\* db.read() resolved: look the code up, store the submission, await db.write()
SubmitRead(r) ==
  /\ reqs[r].op = "submit-test" /\ reqs[r].pc = "read"
  /\ LET b == reqs[r].arg
         entry == Lookup(disk.testers, b.testerCode)
     IN IF entry.kind = "undefined"
        THEN /\ mem' = disk
             /\ reqs' = [reqs EXCEPT ![r] = Respond(r, @.op, @.s, @.u, "-", "Cod invalid", 200)]
             /\ UNCHANGED wq
        ELSE /\ mem' = [disk EXCEPT !.tests =
                          Put(@, b.id, TestSubmission(b.id, b.testerCode, UserIdOf(entry),
                                                      b.testType, b.result))]
             /\ WriteCall(r, mem')
             /\ reqs' = [reqs EXCEPT ![r].pc = "write", ![r].loc = mem'.tests[b.id]]
  /\ UNCHANGED <<rev, now, session, disk, started, conn, sseClients, inbox, bcast>>

\* db.write() resolved: res.json({ ok: true })
SubmitWritten(r) ==
  /\ reqs[r].op = "submit-test" /\ reqs[r].pc = "written"
  /\ reqs' = [reqs EXCEPT ![r] = Respond(r, @.op, @.s, @.u, "-", "ok", 200)]
  /\ UNCHANGED <<rev, now, session, mem, disk, wq, started, conn, sseClients, inbox, bcast>>

\* ------------------------------------------------------------ test configs
ConfigNames == {"radio", "mdt"}
TimeLimits == {60, 90}

\* { testName, timeLimitSeconds, questionsCount, maxMistakes }
TestConfig(testName, limit) ==
  [testName |-> testName, timeLimitSeconds |-> limit, questionsCount |-> 10, maxMistakes |-> 3]

\* a guard that trusts the flag cached in the session
CachedEditor(u, member) == u.isEditor

\* roles.some((r) => editorRoles.includes(r)) on the roles fetched now
LiveEditor(u, member) == isEditorOf(IF member.ok THEN member.roles ELSE {})

\* POST /manage-tests/config and DELETE /manage-tests/config/:name up to
\* requireEditor's await getGuildMember(u.id)
ManageConfig(r, s, kind, testName, limit) ==
  /\ rev = "full"
  /\ Arrive(r)
  /\ LET u == session[s] IN
     reqs' = [reqs EXCEPT ![r] =
       IF u = NoUser THEN Respond(r, "manage-tests/config", s, u, "-", "Not auth", 401)
       ELSE Suspend(r, "manage-tests/config", s, u,
                    [kind |-> kind, testName |-> testName, limit |-> limit], "-", "member")]
  /\ UNCHANGED <<rev, now, session, mem, disk, wq, conn, sseClients, inbox, bcast>>

\* the role list arrived: 403, or next() and the route up to await db.read()
requireEditor(r, member) ==
  /\ reqs[r].op = "manage-tests/config" /\ reqs[r].pc = "member"
  /\ reqs' = [reqs EXCEPT ![r] =
       IF LiveEditor(reqs[r].u, member)
       THEN Suspend(r, @.op, @.s, @.u, @.arg, "next", "read")
       ELSE Respond(r, @.op, @.s, @.u, "-", "Forbidden", 403)]
  /\ UNCHANGED <<rev, now, session, mem, disk, wq, started, conn, sseClients, inbox, bcast>>

\* db.read() resolved: set or delete the config, await db.write()
ConfigRead(r) ==
  /\ reqs[r].op = "manage-tests/config" /\ reqs[r].pc = "read"
  /\ LET b == reqs[r].arg IN
     mem' = [disk EXCEPT !.configs =
               IF b.kind = "set" THEN Put(@, b.testName, TestConfig(b.testName, b.limit))
               ELSE Del(@, b.testName)]
  /\ WriteCall(r, mem')
  /\ reqs' = [reqs EXCEPT ![r].pc = "write"]
  /\ UNCHANGED <<rev, now, session, disk, started, conn, sseClients, inbox, bcast>>

\* db.write() resolved: res.json({ ok: true })
ConfigWritten(r) ==
  /\ reqs[r].op = "manage-tests/config" /\ reqs[r].pc = "written"
  /\ reqs' = [reqs EXCEPT ![r] = Respond(r, @.op, @.s, @.u, @.arg, "ok", 200)]
  /\ UNCHANGED <<rev, now, session, mem, disk, wq, started, conn, sseClients, inbox, bcast>>

\* names a GET /config/:name may carry
ConfigNameInputs == {"radio", "constructor"}

\* db.data.configs[name] || {}: the own record, an inherited property of
\* Object.prototype (truthy), or the empty object literal
ConfigAnswer(configs, name) ==
  LET e == Lookup(configs, name)
  IN IF e.kind = "undefined" THEN [kind |-> "empty", value |-> name] ELSE e

\* GET /config/:name up to await db.read()
ConfigGet(r, name) ==
  /\ Arrive(r)
  /\ reqs' = [reqs EXCEPT ![r] = Suspend(r, "config", "-", NoUser, name, "-", "read")]
  /\ UNCHANGED <<rev, now, session, mem, disk, wq, conn, sseClients, inbox, bcast>>

\* db.read() resolved: res.json(db.data.configs[req.params.name] || {})
ConfigGetRead(r) ==
  /\ reqs[r].op = "config" /\ reqs[r].pc = "read"
  /\ mem' = disk
  /\ reqs' = [reqs EXCEPT ![r] =
       Respond(r, "config", "-", NoUser, @.arg, ConfigAnswer(disk.configs, @.arg), 200)]
  /\ UNCHANGED <<rev, now, session, disk, wq, started, conn, sseClients, inbox, bcast>>

\* ------------------------------------------------------------------- stats
\* a value no count takes
NaN == 0 - 1

\* x + 1 in JavaScript: undefined + 1 and NaN + 1 are NaN
Incr(x) == IF x = NaN THEN NaN ELSE x + 1

\* byType[k] = (byType[k] || 0) + 1
CountUp(o, k) == Put(o, k, IF k \in DOMAIN o THEN o[k] + 1 ELSE 1)

\* byResult[k]++ : a key that is absent reads undefined and is stored as NaN
PlusPlus(o, k) == Put(o, k, IF k \in DOMAIN o THEN Incr(o[k]) ELSE NaN)

\* tests.forEach((t) => {...}) over the values of db.data.tests
RECURSIVE StatsFold(_, _)
StatsFold(tests, acc) ==
  IF tests = {} THEN acc
  ELSE LET t == CHOOSE x \in tests : TRUE
       IN StatsFold(tests \ {t},
            [byType |-> CountUp(acc.byType, t.testType),
             byResult |-> PlusPlus(acc.byResult, t.result),
             byDay |-> CountUp(acc.byDay, DayOf(t.createdAt))])

\* const byType = {}; const byResult = { ADMIS: 0, RESPINS: 0 }; const byDay = {}
StatsOf(tests) ==
  StatsFold(Values(tests),
    [byType |-> EmptyObj,
     byResult |-> [k \in {"ADMIS", "RESPINS"} |-> 0],
     byDay |-> EmptyObj])

\* GET /tests/stats up to await db.read()
Stats(r) ==
  /\ Arrive(r)
  /\ reqs' = [reqs EXCEPT ![r] = Suspend(r, "tests/stats", "-", NoUser, "-", "-", "read")]
  /\ UNCHANGED <<rev, now, session, mem, disk, wq, conn, sseClients, inbox, bcast>>

\* db.read() resolved: res.json({ byType, byResult, byDay })
StatsRead(r) ==
  /\ reqs[r].op = "tests/stats" /\ reqs[r].pc = "read"
  /\ mem' = disk
  /\ reqs' = [reqs EXCEPT ![r] =
       Respond(r, @.op, @.s, @.u, Cardinality(DOMAIN mem'.tests), StatsOf(mem'.tests), 200)]
  /\ UNCHANGED <<rev, now, session, disk, wq, started, conn, sseClients, inbox, bcast>>


\* ---------------------------------------------------------- specifications
\* Each specification runs the handlers of one part of the server, with the
\* inputs its requests draw from.
\* what getGuildMember resolves to: the member's roles, or null when !r.ok
Answers(lists) == {[ok |-> TRUE, roles |-> x] : x \in lists}
NoAnswer == [ok |-> FALSE, roles |-> {}]

SignIn(Q, M) == \E r \in Reqs, s \in Sessions, q \in Q, member \in M : Login(r, s, q, member)

LoginStep(Q, M) ==
  \/ SignIn(Q, M)
  \/ \E r \in Reqs : LoginRead(r)
  \/ \E r \in Reqs : LoginWritten(r)

DutySwitch(B) ==
  \/ \E r \in Reqs, s \in Sessions, body \in B : DutyOn(r, s, body)
  \/ \E r \in Reqs, s \in Sessions : DutyOff(r, s)

DutyStep(B, T) ==
  \/ DutySwitch(B)
  \/ \E r \in Reqs : DutyQuery(r, "duty/list", "-")
  \/ \E r \in Reqs, type \in T : DutyQuery(r, "duty/allow", type)
  \/ \E r \in Reqs : DutyListRead(r)
  \/ \E r \in Reqs : DutyAllowRead(r)

StreamStep ==
  \/ \E r \in Reqs, s \in Sessions : Events(r, s)
  \/ \E c \in Conns : Drop(c)
  \/ \E c \in Conns : Close(c)

PingStep(T, I) ==
  \/ \E r \in Reqs, s \in Sessions, testType \in T, note \in Notes, id \in I :
        CallInstructorFresh(r, s, testType, note, id)
  \/ \E r \in Reqs : CallRead(r)
  \/ \E r \in Reqs, sent \in BOOLEAN : CallWritten(r, sent)
  \/ \E r \in Reqs, s \in Sessions, id \in I : AckPing(r, s, id)
  \/ \E r \in Reqs : AckRead(r)
  \/ \E r \in Reqs : AckWritten(r)

InitFull == Init /\ rev = "full"
InitLive == Init /\ rev = "live"

\* the ping workflow of part_000
NextPing ==
  \/ SignIn({"ok"}, Answers({{}, {"rRadio"}, {"rEditor"}}))
  \/ \E r \in Reqs : LoginRead(r)
  \/ PingStep({"radio", "academie"}, PingIds)
  \/ WriteLand

SpecPing == InitFull /\ [][NextPing]_vars

\* the ping workflow of the "live" revision
NextPingLive ==
  \/ SignIn({"ok"}, Answers(RoleLists) \cup {NoAnswer})
  \/ PingStep(TestTypeInputs, PingIds)
  \/ WriteLand

SpecPingLive == InitLive /\ [][NextPingLive]_vars

\* sign-in and the tester registry of part_000
NextCodes ==
  \/ LoginStep({"notoken", "nouser", "ok"}, Answers({{"rTester"}, {"rMdt", "rAny"}}) \cup {NoAnswer})
  \/ WriteLand

SpecCodes == InitFull /\ [][NextCodes]_vars

\* the duty registry of part_000
NextDuty ==
  \/ SignIn({"ok"}, Answers({{"rRadio", "rMdt"}, {"rEditor"}}))
  \/ \E r \in Reqs : LoginRead(r)
  \/ DutyStep({<<>>}, TestTypeInputs)
  \/ WriteLand
  \/ Tick

SpecDuty == InitFull /\ [][NextDuty]_vars

\* the duty registry of the "live" revision
NextDutyLive ==
  \/ SignIn({"ok"}, Answers({{"rRadio"}, {"rTester", "rEditor"}}))
  \/ DutyStep(BodyRoleInputs, TestTypeInputs)
  \/ WriteLand
  \/ Tick

SpecDutyLive == InitLive /\ [][NextDutyLive]_vars

\* the event stream of part_000 and the four mutations that are broadcast
NextStream ==
  \/ LoginStep({"ok"}, Answers({{"rRadio", "rTester"}}))
  \/ StreamStep
  \/ DutySwitch({<<>>})
  \/ PingStep({"radio"}, {"p1"})
  \/ WriteLand

SpecStream == InitFull /\ [][NextStream]_vars

TestsStep(C) ==
  \/ \E r \in Reqs, testerCode \in C, testType \in SubmitTypeInputs, result \in ResultInputs,
        id \in TestIds : SubmitTest(r, testerCode, testType, result, id)
  \/ \E r \in Reqs : SubmitRead(r)
  \/ \E r \in Reqs : SubmitWritten(r)
  \/ \E r \in Reqs : Stats(r)
  \/ \E r \in Reqs : StatsRead(r)

\* submissions and their statistics in part_000
NextTests ==
  \/ TestsStep(CodeInputs)
  \/ WriteLand
  \/ Tick

\* part_000 after identity u1, a tester, has signed in and got code A1B2C3
OneTester == [EmptyDoc EXCEPT !.testers = Put(EmptyObj, "A1B2C3", [userId |-> "u1", createdAt |-> toISOString(0)])]

InitTests ==
  /\ rev = "full"
  /\ now = 0
  /\ session = [s \in Sessions |-> IF s = "s1" THEN SessionUser("u1", {"rTester"}) ELSE NoUser]
  /\ mem = OneTester
  /\ disk = OneTester
  /\ wq = <<>>
  /\ reqs = [r \in Reqs |-> Idle]
  /\ started = 0
  /\ conn = [c \in Conns |-> "unused"]
  /\ sseClients = {}
  /\ inbox = [c \in Conns |-> <<>>]
  /\ bcast = [n |-> 0, last |-> [type |-> "none"]]

SpecTests == InitTests /\ [][NextTests]_vars

ConfigStep(M) ==
  \/ \E r \in Reqs, s \in Sessions, kind \in {"set", "delete"}, testName \in ConfigNames,
        limit \in TimeLimits : ManageConfig(r, s, kind, testName, limit)
  \/ \E r \in Reqs, member \in M : requireEditor(r, member)
  \/ \E r \in Reqs : ConfigRead(r)
  \/ \E r \in Reqs : ConfigWritten(r)

\* the ping workflow of part_000 with the id drawn as randomBytes draws it:
\* any value, whether or not a ping already carries it
NextPingIds ==
  \/ SignIn({"ok"}, Answers({{"rRadio"}}))
  \/ \E r \in Reqs : LoginRead(r)
  \/ \E r \in Reqs, s \in Sessions, note \in Notes, id \in PingIds :
        CallInstructor(r, s, "radio", note, id)
  \/ \E r \in Reqs : CallRead(r)
  \/ \E r \in Reqs, sent \in BOOLEAN : CallWritten(r, sent)
  \/ \E r \in Reqs, s \in Sessions, id \in PingIds : AckPing(r, s, id)
  \/ \E r \in Reqs : AckRead(r)
  \/ \E r \in Reqs : AckWritten(r)
  \/ WriteLand

SpecPingIds == InitFull /\ [][NextPingIds]_vars

\* part_000 after u1, a radio and MDT instructor, and u2, an editor, have signed in
InitSignedIn ==
  /\ rev = "full"
  /\ now = 0
  /\ session = [s \in Sessions |-> IF s = "s1" THEN SessionUser("u1", {"rRadio", "rMdt"})
                                   ELSE SessionUser("u2", {"rEditor"})]
  /\ mem = EmptyDoc
  /\ disk = EmptyDoc
  /\ wq = <<>>
  /\ reqs = [r \in Reqs |-> Idle]
  /\ started = 0
  /\ conn = [c \in Conns |-> "unused"]
  /\ sseClients = {}
  /\ inbox = [c \in Conns |-> <<>>]
  /\ bcast = [n |-> 0, last |-> [type |-> "none"]]

\* the duty registry of part_000 used by two signed-in identities
NextDutyOff ==
  \/ DutyStep({<<>>}, {"radio"})
  \/ WriteLand
  \/ Tick

SpecDutyOff == InitSignedIn /\ [][NextDutyOff]_vars

\* part_000 with u1 going on duty and staying there while u2 switches on and
\* off, the list is read and pings are created and accepted
NextOnDuty ==
  \/ \E r \in Reqs, s \in Sessions : DutyOn(r, s, <<>>)
  \/ \E r \in Reqs : DutyOff(r, "s2")
  \/ \E r \in Reqs : DutyQuery(r, "duty/list", "-")
  \/ \E r \in Reqs : DutyListRead(r)
  \/ PingStep({"radio"}, {"p1"})
  \/ WriteLand

SpecOnDuty == InitSignedIn /\ [][NextOnDuty]_vars

\* two identities signed in, the first of them subscribed to GET /events
InitSubscribed ==
  /\ rev = "full"
  /\ now = 0
  /\ session = [s \in Sessions |-> IF s = "s1" THEN SessionUser("u1", {"rRadio", "rMdt"})
                                   ELSE SessionUser("u2", {"rEditor"})]
  /\ mem = EmptyDoc
  /\ disk = EmptyDoc
  /\ wq = <<>>
  /\ reqs = [r \in Reqs |-> Idle]
  /\ started = 0
  /\ conn = [c \in Conns |-> IF c = 1 THEN "open" ELSE "unused"]
  /\ sseClients = {[res |-> 1, id |-> "u1"]}
  /\ inbox = [c \in Conns |-> IF c = 1 THEN <<[type |-> "hello"]>> ELSE <<>>]
  /\ bcast = [n |-> 0, last |-> [type |-> "none"]]

\* the ping routes of part_000 in front of a subscribed client
NextPingStream ==
  \/ \E c \in Conns : Drop(c)
  \/ \E c \in Conns : Close(c)
  \/ PingStep({"radio"}, PingIds)
  \/ WriteLand

SpecPingStream == InitSubscribed /\ [][NextPingStream]_vars

\* two identities signed in, the first with no role at all
InitNoFlags ==
  /\ rev = "full"
  /\ now = 0
  /\ session = [s \in Sessions |-> IF s = "s1" THEN SessionUser("u1", {})
                                   ELSE SessionUser("u2", {"rRadio"})]
  /\ mem = EmptyDoc
  /\ disk = EmptyDoc
  /\ wq = <<>>
  /\ reqs = [r \in Reqs |-> Idle]
  /\ started = 0
  /\ conn = [c \in Conns |-> "unused"]
  /\ sseClients = {}
  /\ inbox = [c \in Conns |-> <<>>]
  /\ bcast = [n |-> 0, last |-> [type |-> "none"]]

\* the ping routes of part_000 given a testType the role checks know and one
\* they do not
NextPingTypes ==
  \/ PingStep({"radio", "quiz"}, {"p1"})
  \/ WriteLand

SpecPingTypes == InitNoFlags /\ [][NextPingTypes]_vars

\* sessions of part_000: sign in, sign out, and the operations gated by the session
NextSession ==
  \/ SignIn({"ok"}, Answers({{"rRadio"}}))
  \/ \E r \in Reqs : LoginRead(r)
  \/ \E r \in Reqs, s \in Sessions : Logout(r, s)
  \/ \E r \in Reqs, s \in Sessions : CheckTester(r, s)
  \/ \E r \in Reqs, s \in Sessions : Events(r, s)
  \/ DutySwitch({<<>>})
  \/ PingStep({"radio"}, {"p1"})
  \/ WriteLand

SpecSession == InitFull /\ [][NextSession]_vars

\* the config routes of part_000 used by an editor and read by anybody
NextConfigGet ==
  \/ \E r \in Reqs, kind \in {"set", "delete"}, testName \in ConfigNameInputs,
        limit \in TimeLimits : ManageConfig(r, "s2", kind, testName, limit)
  \/ \E r \in Reqs : requireEditor(r, [ok |-> TRUE, roles |-> {"rEditor"}])
  \/ \E r \in Reqs : ConfigRead(r)
  \/ \E r \in Reqs : ConfigWritten(r)
  \/ \E r \in Reqs, name \in ConfigNameInputs : ConfigGet(r, name)
  \/ \E r \in Reqs : ConfigGetRead(r)
  \/ WriteLand

SpecConfigGet == InitSignedIn /\ [][NextConfigGet]_vars

\* sign-in of the revision of server.js lines 401-584
InitMid == Init /\ rev = "mid"

NextLoginMid ==
  \/ LoginStep({"notoken", "nouser", "ok"}, Answers(RoleLists) \cup {NoAnswer})
  \/ WriteLand

SpecLoginMid == InitMid /\ [][NextLoginMid]_vars

\* the loop runs without an await: nothing else runs while a handler is in it
NoLoop == \A r \in Reqs : reqs[r].pc /= "loop"

\* sign-in of part_000 with the allocation loop taken one iteration at a time
NextAlloc ==
  \/ NoLoop /\ SignIn({"ok"}, Answers({{"rTester"}, {"rMdt", "rAny"}}))
  \/ NoLoop /\ \E r \in Reqs : LoginReadLoop(r)
  \/ \E r \in Reqs, code \in Codes : DrawCode(r, code)
  \/ NoLoop /\ \E r \in Reqs : LoginWritten(r)
  \/ NoLoop /\ WriteLand

SpecAlloc == InitFull /\ [][NextAlloc]_vars

\* random candidates: a draw of a free code is not put off for ever
SpecAllocFair == SpecAlloc /\ WF_vars(\E r \in Reqs, code \in Codes : DrawFree(r, code))

\* every role a member may hold
AllRoles == testerRoles \cup editorRoles \cup {RADIO_INSTR_ROLE, MDT_INSTR_ROLE, TESTER_ROLE_ANY}

\* part_000 after u1 has signed in, with any role list
InitAnyFlags ==
  /\ rev = "full"
  /\ now = 0
  /\ \E roles \in SUBSET AllRoles :
       session = [s \in Sessions |-> IF s = "s1" THEN SessionUser("u1", roles) ELSE NoUser]
  /\ mem = EmptyDoc
  /\ disk = EmptyDoc
  /\ wq = <<>>
  /\ reqs = [r \in Reqs |-> Idle]
  /\ started = 0
  /\ conn = [c \in Conns |-> "unused"]
  /\ sseClients = {}
  /\ inbox = [c \in Conns |-> <<>>]
  /\ bcast = [n |-> 0, last |-> [type |-> "none"]]

\* the duty registry of part_000 for every combination of capability flags
NextDutyFlags ==
  \/ DutyStep({<<>>}, {"radio"})
  \/ WriteLand
  \/ Tick

SpecDutyFlags == InitAnyFlags /\ [][NextDutyFlags]_vars

\* the editor-protected config routes of part_000
NextConfig ==
  \/ SignIn({"ok"}, Answers({{}, {"rEditor"}}))
  \/ \E r \in Reqs : LoginRead(r)
  \/ ConfigStep(Answers({{}, {"rEditor"}}) \cup {NoAnswer})
  \/ WriteLand

SpecConfig == InitFull /\ [][NextConfig]_vars

\* ------------------------------------------------------------------ claims
\* the capability a ping of a type asks of the identity that accepts it
HasCapability(u, testType) ==
  CASE testType = "radio" -> u.canRadio
    [] testType = "mdt" -> u.canMDT
    [] testType = "academie" -> u.isTester \/ u.isEditor
    [] OTHER -> TRUE

\* handler r leaves its read of POST /ack-ping in this step
AckDecides(r) == reqs[r].op = "ack-ping" /\ reqs[r].pc = "read" /\ reqs'[r].pc /= "read"

\* C1: among the accept attempts on one ping id exactly one succeeds and the
\* others fail with Conflict: an attempt by a capable identity that finds the
\* ping already accepted is answered 409 and leaves acceptedBy as it is.
C1_LaterAcceptConflicts ==
  [][\A r \in Reqs : AckDecides(r) =>
       LET i == FindPing(disk.pings, reqs[r].arg) IN
       (i /= 0 /\ disk.pings[i].status = "accepted"
          /\ HasCapability(reqs[r].u, disk.pings[i].testType))
         => (reqs'[r].status = 409 /\ mem'.pings[i].acceptedBy = disk.pings[i].acceptedBy)]_vars

\* C2: every accept answered with success was made by an identity whose
\* session holds the capability the ping's type requires (the others get 403).
C2_AcceptNeedsCapability ==
  \A r \in Reqs :
    (reqs[r].op = "ack-ping" /\ reqs[r].pc \in {"write", "written", "done"}
       /\ reqs[r].status \in {0, 200})
      => HasCapability(reqs[r].u, reqs[r].loc.testType)

\* every ping of log a that is accepted is, where log b still has it, accepted
\* in b by the same identity
PingKept(a, b) ==
  \A i \in 1..Len(a), j \in 1..Len(b) :
    (a[i].id = b[j].id /\ a[i].status = "accepted")
      => (b[j].status = "accepted" /\ b[j].acceptedBy = a[i].acceptedBy)

\* C3: once a ping is accepted it stays accepted by the same identity in every
\* later state, in db.data and in db.json.
C3_AcceptedStaysAccepted ==
  [][PingKept(mem.pings, mem'.pings) /\ PingKept(disk.pings, disk'.pings)]_vars

\* handler r of a sign-in allocates a tester code in this step
Allocates(r) == reqs[r].op = "login" /\ reqs[r].pc = "read" /\ reqs'[r].pc = "write"

CodesGiven(id) ==
  CodesOfUser(mem.testers, id) \cup CodesOfUser(disk.testers, id)
    \cup UNION {CodesOfUser(wq[i].snap.testers, id) : i \in 1..Len(wq)}

\* C5: the registry holds at most one code per userId, and a sign-in of an
\* identity that already was given a code never allocates a second one.
C5_NoSecondCode ==
  [][/\ \A id \in Users : Cardinality(CodesOfUser(mem'.testers, id)) <= 1
                       /\ Cardinality(CodesOfUser(disk'.testers, id)) <= 1
     /\ \A r \in Reqs : Allocates(r) => CodesGiven(reqs[r].u.id) = {}]_vars

\* C6: when a mutation is broadcast, every connected client receives exactly
\* one event, the event of that mutation, and a client that has disconnected
\* receives none.
C6_FanOut ==
  [][bcast'.n /= bcast.n =>
       /\ bcast'.n = bcast.n + 1
       /\ \A c \in Conns :
            inbox'[c] = IF conn[c] = "open" THEN Append(inbox[c], bcast'.last)
                        ELSE inbox[c]]_vars

\* C6 witness: two clients are registered, one of them has disconnected; a
\* broadcast reached the connected one and not the other
C6_OneReceivedOneSkipped ==
  /\ bcast.n = 1
  /\ Cardinality(sseClients) = 2
  /\ \E c, d \in Conns :
       /\ conn[c] = "open" /\ inbox[c] = <<Hello, bcast.last>>
       /\ conn[d] = "dropped" /\ inbox[d] = <<Hello>>

\* the records of a duty registry that belong to identity id
RecordsOf(duty, id) == {k \in DOMAIN duty : duty[k].id = id}

\* C7: the duty registry holds at most one record per userId, and a call of
\* goOnDuty, the second in a row as well, leaves exactly one record for the
\* identity, whose since is the time of that call.
C7_OneDutyRecord ==
  [][/\ \A id \in Users : Cardinality(RecordsOf(mem'.duty, id)) <= 1
                       /\ Cardinality(RecordsOf(disk'.duty, id)) <= 1
     /\ \A r \in Reqs, s \in Sessions, body \in BodyRoleInputs :
          (session[s] /= NoUser /\ DutyOn(r, s, body)) =>
            /\ RecordsOf(mem'.duty, session[s].id) = {session[s].id}
            /\ mem'.duty[session[s].id].since = toISOString(now)]_vars

\* C7 witness: an identity went on duty at time 0 and again at time 1; the two
\* writes are under way and the registry holds its one record, since 1
C7_TwiceInARow ==
  /\ Len(wq) = 2
  /\ \E id \in Users :
       /\ id \in DOMAIN wq[1].snap.duty /\ wq[1].snap.duty[id].since = toISOString(0)
       /\ id \in DOMAIN wq[2].snap.duty /\ wq[2].snap.duty[id].since = toISOString(1)
       /\ RecordsOf(mem.duty, id) = {id} /\ mem.duty[id].since = toISOString(1)

\* the role of an on-duty record that covers a test type
RequiredRole(type) ==
  CASE type = "academie" -> "general"
    [] type = "radio" -> "radio"
    [] type = "mdt" -> "mdt"
    [] OTHER -> "-"

\* C10: isCovered(testType) is true exactly when the type is one of academie,
\* radio, mdt and some on-duty record's roles contain the role it requires.
C10_CoveredIffRoleOnDuty ==
  [][\A r \in Reqs :
       (reqs[r].op = "duty/allow" /\ reqs[r].pc = "read" /\ reqs'[r].pc = "done") =>
         (reqs'[r].loc = TRUE <=>
            /\ reqs[r].arg \in {"academie", "radio", "mdt"}
            /\ \E k \in DOMAIN disk.duty :
                 Includes(disk.duty[k].roles, RequiredRole(reqs[r].arg)))]_vars

\* C8: a submission whose testerCode is not a key of the testers registry is
\* answered with the validation error at once and writes nothing: the tests
\* collection stays as it was read and no write is started.
C8_UnregisteredCodeRejected ==
  [][\A r \in Reqs :
       (reqs[r].op = "submit-test" /\ reqs[r].pc = "read" /\ reqs'[r].pc /= "read"
          /\ reqs[r].arg.testerCode \notin DOMAIN disk.testers)
         => (reqs'[r].pc = "done" /\ mem'.tests = disk.tests /\ wq' = wq)]_vars

\* the sum of the counts of one dimension; NaN as soon as one count is NaN
RECURSIVE SumOver(_, _)
SumOver(o, keys) ==
  IF keys = {} THEN 0
  ELSE LET k == CHOOSE x \in keys : TRUE
           rest == SumOver(o, keys \ {k})
       IN IF o[k] = NaN \/ rest = NaN THEN NaN ELSE o[k] + rest

SumOf(o) == SumOver(o, DOMAIN o)

\* C9: the counts /tests/stats returns sum to the number of submissions along
\* each dimension: byType, byResult and byDay.
C9_StatsSumToTotal ==
  \A r \in Reqs :
    (reqs[r].op = "tests/stats" /\ reqs[r].pc = "done") =>
      /\ SumOf(reqs[r].loc.byType) = reqs[r].arg
      /\ SumOf(reqs[r].loc.byResult) = reqs[r].arg
      /\ SumOf(reqs[r].loc.byDay) = reqs[r].arg

\* the roles the capability flags of an identity imply
ImpliedRoles(u) ==
  (IF u.canRadio THEN {"radio"} ELSE {}) \cup (IF u.canMDT THEN {"mdt"} ELSE {})
    \cup (IF u.isTester \/ u.isEditor THEN {"general"} ELSE {})

RoleSet(seq) == {seq[i] : i \in 1..Len(seq)}

\* C11: the record goOnDuty stores has exactly the roles the identity's
\* capability flags imply, whatever the request carries.
C11_RolesFromFlagsOnly ==
  [][\A r \in Reqs, s \in Sessions, body \in BodyRoleInputs :
       (session[s] /= NoUser /\ DutyOn(r, s, body)) =>
         RoleSet(mem'.duty[session[s].id].roles) = ImpliedRoles(session[s])]_vars

\* C12: a sign-in whose profile fetch or role-list fetch gets a non-success
\* answer is an authentication failure: the cookie's session is left as it
\* was, so no identity is established and no capability flag is granted.
C12_FailedFetchNoSession ==
  [][\A r \in Reqs, s \in Sessions, q \in {"nouser", "ok"},
        member \in Answers(RoleLists) \cup {NoAnswer} :
       ((q = "nouser" \/ ~member.ok) /\ Login(r, s, q, member)) => session'[s] = session[s]]_vars

\* C13: a config is created, overwritten or deleted only by a request whose
\* identity holds an editor role in the role list fetched for that request;
\* a session whose editor role was revoked gets 403, a request without a
\* session gets 401, and neither changes the configs.
C13_ConfigNeedsLiveEditor ==
  [][/\ \A r \in Reqs, member \in Answers(RoleLists) \cup {NoAnswer} :
          (requireEditor(r, member) /\ ~isEditorOf(IF member.ok THEN member.roles ELSE {}))
            => (reqs'[r].status = 403 /\ mem' = mem /\ disk' = disk /\ wq' = wq)
     /\ \A r \in Reqs, s \in Sessions, kind \in {"set", "delete"}, testName \in ConfigNames,
           limit \in TimeLimits :
          (session[s] = NoUser /\ ManageConfig(r, s, kind, testName, limit))
            => (reqs'[r].status = 401 /\ mem' = mem /\ disk' = disk /\ wq' = wq)
     /\ (mem'.configs \notin {mem.configs, disk.configs}) => \E r \in Reqs : ConfigRead(r)]_vars

\* C13 witness: a session whose cached isEditor flag is true was answered 403
\* while the configs hold an entry an editor stored
C13_RevokedEditorRefused ==
  /\ \E r \in Reqs : reqs[r].op = "manage-tests/config" /\ reqs[r].status = 403
                     /\ reqs[r].u.isEditor
  /\ disk.configs /= EmptyObj

\* submit-test has answered ok for the stored submission id: it is persisted
\* and no handler is still working on it
Acked(id) ==
  /\ id \in DOMAIN disk.tests
  /\ \A r \in Reqs : ~(reqs[r].op = "submit-test" /\ reqs[r].pc \in {"read", "write", "written"}
                       /\ reqs[r].arg.id = id)

\* C14: the tests collection is append-only: a submission that submit-test
\* has answered ok for stays in the persisted collection with unchanged
\* fields after every later step, whatever the interleaving of handlers.
C14_TestsAppendOnly ==
  [][\A id \in TestIds :
       Acked(id) => (id \in DOMAIN disk'.tests /\ disk'.tests[id] = disk.tests[id])]_vars

\* the login that allocated the code has persisted it and redirected
CodeSettled(code) ==
  /\ code \in DOMAIN disk.testers
  /\ \A r \in Reqs : ~(reqs[r].op = "login" /\ reqs[r].pc \in {"write", "written"}
                       /\ reqs[r].loc = code)

\* C15: a tester code allocated at login stays mapped to the same userId in
\* the persisted registry after every later step, whatever the interleaving
\* of handlers: it is neither removed nor mapped to another identity.
C15_CodeStaysMapped ==
  [][\A code \in Codes :
       CodeSettled(code) => (code \in DOMAIN disk'.testers
                             /\ disk'.testers[code].userId = disk.testers[code].userId)]_vars

\* create has returned this id to its caller (the answered handler is still on record)
Returned(id) ==
  \E r \in Reqs : /\ reqs[r].op = "call-instructor" /\ reqs[r].pc = "done"
                  /\ reqs[r].status = 200 /\ reqs[r].loc.id = id

\* C16: the pings log is append-only: a ping whose id create has returned is
\* in the persisted log in every later state, whatever the interleaving of
\* create, accept and the other writers of the document.
C16_PingsAppendOnly ==
  \A id \in PingIds : Returned(id) => id \in IdsOf(disk.pings)

\* C17: create by an authenticated identity appends exactly one open record
\* whose requester is the caller to the log it read, leaves the pings of that
\* log unchanged, broadcasts one ping event carrying the record and returns
\* the record's id to the caller.
C17_CreateAppendsBroadcastsReturns ==
  [][\A r \in Reqs :
       /\ CallRead(r) =>
            /\ Len(mem'.pings) = Len(disk.pings) + 1
            /\ SubSeq(mem'.pings, 1, Len(disk.pings)) = disk.pings
            /\ mem'.pings[Len(mem'.pings)].status = "open"
            /\ mem'.pings[Len(mem'.pings)].requester.id = reqs[r].u.id
            /\ wq'[Len(wq')].snap.pings = mem'.pings
       /\ \A sent \in BOOLEAN :
            CallWritten(r, sent) =>
              /\ bcast'.n = bcast.n + 1
              /\ bcast'.last = Event("ping", reqs[r].loc)
              /\ reqs'[r].pc = "done" /\ reqs'[r].status = 200
              /\ reqs'[r].loc.id = reqs[r].loc.id]_vars

\* C18: in every reachable state no two records of the pings log, in db.data
\* or persisted, carry the same id.
C18_PingIdsUnique ==
  \A pings \in {mem.pings, disk.pings} :
    \A i, j \in 1..Len(pings) : pings[i].id = pings[j].id => i = j

\* C19: accept by a signed-in identity answers 404 whenever no ping of the
\* log it read has the id asked for, whatever the caller's capabilities, and
\* changes nothing.
C19_AcceptUnknownIs404 ==
  [][\A r \in Reqs :
       (AckRead(r) /\ reqs[r].arg \notin IdsOf(disk.pings)) =>
         /\ reqs'[r].pc = "done" /\ reqs'[r].status = 404
         /\ mem' = disk /\ disk' = disk /\ wq' = wq /\ bcast' = bcast]_vars

\* C19 witness: an identity that may accept radio pings asked for an id that
\* the log, which is not empty, does not hold and was answered 404
C19_CapableCallerGot404 ==
  \E r \in Reqs : /\ reqs[r].op = "ack-ping" /\ reqs[r].status = 404
                  /\ reqs[r].u.canRadio
                  /\ disk.pings /= <<>>
                  /\ reqs[r].arg \notin IdsOf(disk.pings)

\* C20: goOffDuty removes the record keyed by the caller's id if there is one
\* and leaves the registry as it is if there is none; every other user's
\* record is unchanged and a duty-update event carrying the registry is
\* emitted.
C20_OffDutyRemovesOwnRecord ==
  [][\A r \in Reqs, s \in Sessions :
       (session[s] /= NoUser /\ DutyOff(r, s)) =>
         LET id == session[s].id IN
         /\ DOMAIN mem'.duty = DOMAIN mem.duty \ {id}
         /\ \A k \in DOMAIN mem'.duty : mem'.duty[k] = mem.duty[k]
         /\ (id \notin DOMAIN mem.duty => mem'.duty = mem.duty)
         /\ bcast'.n = bcast.n + 1
         /\ bcast'.last = Event("duty-update", mem'.duty)]_vars

\* C20 witness: an identity whose record is still in the persisted registry
\* has gone off duty; its record is gone from db.data, another user's record
\* is still there, and the duty-update event carried that registry
C20_OneLeavesOneStays ==
  \E r \in Reqs :
    /\ reqs[r].op = "duty/off" /\ reqs[r].status = 200
    /\ reqs[r].u.id \in DOMAIN disk.duty
    /\ reqs[r].u.id \notin DOMAIN mem.duty
    /\ \E k \in DOMAIN mem.duty : k \in DOMAIN disk.duty /\ mem.duty[k] = disk.duty[k]
    /\ bcast.last = Event("duty-update", mem.duty)

\* C21: when the notification call of create-ping fails, the failure is
\* swallowed: the request is still answered with success and the ping event
\* is still broadcast.  (submit-test of part_000 sends no notification.)
C21_NotificationFailureSwallowed ==
  [][\A r \in Reqs :
       (rev = "full" /\ CallWritten(r, FALSE)) =>
         /\ reqs'[r].pc = "done" /\ reqs'[r].status = 200
         /\ bcast'.n = bcast.n + 1 /\ bcast'.last = Event("ping", reqs[r].loc)]_vars

\* a session-gated request arrives on cookie s and is handled up to its first await
GatedRequest(r, s) ==
  \/ \E body \in BodyRoleInputs : DutyOn(r, s, body)
  \/ DutyOff(r, s)
  \/ \E testType \in TestTypeInputs, note \in Notes, id \in PingIds :
       CallInstructor(r, s, testType, note, id)
  \/ \E id \in PingIds : AckPing(r, s, id)
  \/ Events(r, s)

\* C22: duty on, duty off, create ping, accept ping and events subscribe on a
\* cookie without an authenticated session are answered 401 and change
\* nothing: the document (duty registry, pings log), its writes, the client
\* registry and the clients' streams are as before and nothing is broadcast.
C22_Unauthenticated401 ==
  [][\A r \in Reqs, s \in Sessions :
       (session[s] = NoUser /\ GatedRequest(r, s)) =>
         /\ reqs'[r].pc = "done" /\ reqs'[r].status = 401
         /\ mem' = mem /\ disk' = disk /\ wq' = wq
         /\ sseClients' = sseClients /\ conn' = conn
         /\ inbox' = inbox /\ bcast' = bcast]_vars

\* C22 witness: with a record in the duty registry and a client subscribed,
\* a request to go on duty on a cookie without a session was answered 401
C22_RefusedWhileOthersActive ==
  /\ mem.duty /= EmptyObj
  /\ sseClients /= {}
  /\ \E r \in Reqs : /\ reqs[r].op = "duty/on" /\ reqs[r].status = 401
                     /\ session[reqs[r].s] = NoUser

\* C23: a subscribe by an authenticated client registers the client and
\* delivers the greeting to that client only; the greeting is the first event
\* on every client's stream, so no duty-update, ping or ack event precedes it.
C23_GreetingFirst ==
  [][/\ \A c \in Conns : inbox'[c] /= <<>> => inbox'[c][1].type = "hello"
     /\ \A r \in Reqs, s \in Sessions :
          (session[s] /= NoUser /\ Events(r, s)) =>
            \E c \in Conns :
              /\ inbox[c] = <<>> /\ inbox'[c] = <<Hello>>
              /\ \A d \in Conns \ {c} : inbox'[d] = inbox[d]
              /\ sseClients' = sseClients \cup {[res |-> c, id |-> session[s].id]}
              /\ bcast' = bcast]_vars

\* C23 witness: a client subscribed, got its greeting and then an event; a
\* second client subscribed after that event and holds its greeting only
C23_SecondClientGreetedAlone ==
  \E c, d \in Conns :
    /\ c /= d /\ conn[c] = "open" /\ conn[d] = "open"
    /\ Len(inbox[c]) = 2 /\ inbox[c][1] = Hello /\ inbox[c][2].type /= "hello"
    /\ inbox[d] = <<Hello>>

\* handler r ends with a broadcast: duty on, duty off, create ping, accept ping
Triggers(r) ==
  \/ \E s \in Sessions, body \in BodyRoleInputs : DutyOn(r, s, body)
  \/ \E s \in Sessions : DutyOff(r, s)
  \/ CallWritten(r, TRUE)
  \/ AckWritten(r)

\* C24: when the push to one registered client fails during a broadcast (its
\* peer is gone), every other registered client still receives the event and
\* the request that triggered the broadcast is answered with success.
C24_FailedPushHarmless ==
  [][(bcast'.n /= bcast.n /\ \E x \in sseClients : conn[x.res] = "dropped") =>
       /\ \A x \in sseClients :
            conn[x.res] = "open" => inbox'[x.res] = Append(inbox[x.res], bcast'.last)
       /\ \E r \in Reqs : Triggers(r) /\ reqs'[r].pc = "done" /\ reqs'[r].status = 200]_vars

\* C24 witness: create ping was answered with success and its ping event
\* reached the connected client while another registered client was gone
C24_PingPastDeadClient ==
  /\ bcast.last.type = "ping"
  /\ \E r \in Reqs : reqs[r].op = "call-instructor" /\ reqs[r].status = 200
  /\ \E x, y \in sseClients :
       /\ conn[x.res] = "dropped" /\ inbox[x.res] = <<Hello>>
       /\ conn[y.res] = "open" /\ inbox[y.res] = <<Hello, bcast.last>>

\* C25: logout leaves the session without identity, and it stays so until a
\* login succeeds on that cookie; meanwhile /check-tester reports
\* authenticated false and duty on, duty off, events subscribe, create ping
\* and accept ping are answered 401.
C25_LoggedOutUntilLogin ==
  [][\A r \in Reqs, s \in Sessions :
       /\ Logout(r, s) => session'[s] = NoUser
       /\ (session[s] = NoUser /\ session'[s] /= NoUser) =>
            \E q \in Reqs, member \in Answers(RoleLists) : Login(q, s, "ok", member)
       /\ (session[s] = NoUser /\ CheckTester(r, s)) =>
            reqs'[r].loc = [authenticated |-> FALSE]
       /\ (session[s] = NoUser /\ GatedRequest(r, s)) =>
            (reqs'[r].pc = "done" /\ reqs'[r].status = 401)]_vars

\* C25 witness: an identity that went on duty has logged out (its record is
\* still in the registry, its session carries no identity) and its next
\* request to go off duty was answered 401
C25_RefusedAfterLogout ==
  \E r \in Reqs :
    /\ reqs[r].op = "duty/off" /\ reqs[r].status = 401
    /\ session[reqs[r].s] = NoUser
    /\ OwnerOf(reqs[r].s) \in DOMAIN mem.duty

\* C26: a successful accept sets the matched ping's status to accepted and
\* acceptedBy to the caller's id and tag, leaves every other ping of the log
\* it read unchanged and writes the document; only when that write has landed
\* does it broadcast one ack event whose payload is the updated record.
C26_AcceptUpdatesPersistsBroadcasts ==
  [][\A r \in Reqs :
       /\ (AckRead(r) /\ reqs'[r].pc = "write") =>
            LET i == FindPing(disk.pings, reqs[r].arg) IN
            /\ Len(mem'.pings) = Len(disk.pings)
            /\ mem'.pings[i].status = "accepted"
            /\ mem'.pings[i].acceptedBy = [id |-> reqs[r].u.id, tag |-> reqs[r].u.discord_tag]
            /\ \A j \in 1..Len(disk.pings) : j /= i => mem'.pings[j] = disk.pings[j]
            /\ wq' = Append(wq, [h |-> r, snap |-> mem'])
            /\ bcast' = bcast /\ inbox' = inbox
       /\ AckWritten(r) =>
            /\ \A k \in 1..Len(wq) : wq[k].h /= r
            /\ bcast'.n = bcast.n + 1
            /\ bcast'.last.type = "ack"
            /\ bcast'.last.payload.id = reqs[r].arg
            /\ bcast'.last.payload.status = "accepted"
            /\ bcast'.last.payload.acceptedBy = [id |-> reqs[r].u.id, tag |-> reqs[r].u.discord_tag]
            /\ reqs'[r].status = 200]_vars

\* C26 witness: of two pings in the persisted log one is accepted and the
\* other still open, and the ack event carrying the accepted record was the
\* last broadcast
C26_OneOfTwoAccepted ==
  /\ Len(disk.pings) = 2
  /\ bcast.last.type = "ack"
  /\ \E i, j \in 1..2 :
       /\ disk.pings[i] = bcast.last.payload /\ disk.pings[i].status = "accepted"
       /\ disk.pings[j].status = "open"
  /\ \E r \in Reqs : reqs[r].op = "ack-ping" /\ reqs[r].status = 200

\* C27: an accept that fails with NotFound or Forbidden (the caller lacks the
\* capability the ping's testType requires) leaves the pings log as it was
\* read, writes nothing and broadcasts nothing.
C27_FailedAcceptChangesNothing ==
  [][\A r \in Reqs : AckRead(r) =>
       LET i == FindPing(disk.pings, reqs[r].arg) IN
       /\ (i /= 0 /\ ~HasCapability(reqs[r].u, disk.pings[i].testType)) => reqs'[r].status = 403
       /\ reqs'[r].status \in {403, 404} =>
            /\ reqs'[r].pc = "done"
            /\ mem'.pings = disk.pings /\ disk' = disk /\ wq' = wq
            /\ bcast' = bcast /\ inbox' = inbox]_vars

\* C27 witness: an accept was answered 403 and the ping it targeted is in the
\* persisted log, open and without acceptedBy
C27_RefusedPingStillOpen ==
  \E r \in Reqs :
    /\ reqs[r].op = "ack-ping" /\ reqs[r].status = 403
    /\ \E i \in 1..Len(disk.pings) :
         /\ disk.pings[i].id = reqs[r].arg
         /\ disk.pings[i].status = "open" /\ disk.pings[i].acceptedBy = Absent
    /\ mem.pings = disk.pings /\ wq = <<>>

\* C28: the roles of a duty record are those of the goOnDuty call that made
\* it: a record of db.data is either the one db.data or db.json already held
\* or the one a goOnDuty of that identity writes in this step, so a later
\* login with other capability flags (or a revocation at the provider)
\* leaves it as it is.
C28_DutyRolesFixedAtOnDuty ==
  [][\A id \in DOMAIN mem'.duty :
       \/ id \in DOMAIN mem.duty /\ mem'.duty[id] = mem.duty[id]
       \/ id \in DOMAIN disk.duty /\ mem'.duty[id] = disk.duty[id]
       \/ \E r \in Reqs, s \in Sessions, body \in BodyRoleInputs :
            session[s] /= NoUser /\ session[s].id = id /\ DutyOn(r, s, body)]_vars

\* C28 witness: an identity on duty has signed in again with other roles; its
\* record, in db.data and persisted, still lists the roles of its goOnDuty
\* call, which are not those its session implies now
C28_StaleRolesAfterLogin ==
  \E s \in Sessions :
    /\ session[s] /= NoUser
    /\ session[s].id \in DOMAIN mem.duty /\ session[s].id \in DOMAIN disk.duty
    /\ mem.duty[session[s].id] = disk.duty[session[s].id]
    /\ RoleSet(mem.duty[session[s].id].roles) /= ImpliedRoles(session[s])
    /\ \A r \in Reqs : reqs[r].pc \in {"idle", "done"}

\* C29: goOnDuty and goOffDuty emit exactly one duty-update event whose
\* payload is the registry as it stands after the mutation, and a list()
\* answered while db.data still holds that registry returns that payload.
C29_DutyUpdateMatchesList ==
  [][/\ \A r \in Reqs, s \in Sessions :
          (session[s] /= NoUser /\ ((\E body \in BodyRoleInputs : DutyOn(r, s, body)) \/ DutyOff(r, s)))
            => (bcast'.n = bcast.n + 1 /\ bcast'.last = Event("duty-update", mem'.duty))
     /\ \A r \in Reqs :
          (DutyListRead(r) /\ bcast.last.type = "duty-update" /\ bcast.last.payload = mem.duty)
            => reqs'[r].loc = bcast.last.payload]_vars

\* the last config request for name n was answered, nothing is being written
\* and no other config request is under way
Settled(q, kind, n) ==
  /\ reqs[q].op = "manage-tests/config" /\ reqs[q].pc = "done" /\ reqs[q].status = 200
  /\ reqs[q].arg.kind = kind /\ reqs[q].arg.testName = n
  /\ wq = <<>>
  /\ \A x \in Reqs \ {q} : reqs[x].op /= "manage-tests/config"

\* C30: config writes are last-write-wins per name: a POST for n stores
\* exactly the posted record under n and leaves the other names as read, a
\* DELETE removes n only; afterwards GET /config/n returns the posted record,
\* and after a DELETE of n it returns the empty object.
C30_ConfigLastWriteWins ==
  [][\A r \in Reqs :
       /\ ConfigRead(r) =>
            LET b == reqs[r].arg IN
            /\ \A k \in (DOMAIN disk.configs) \ {b.testName} :
                 k \in DOMAIN mem'.configs /\ mem'.configs[k] = disk.configs[k]
            /\ b.kind = "set" => /\ DOMAIN mem'.configs = DOMAIN disk.configs \cup {b.testName}
                                 /\ mem'.configs[b.testName] = TestConfig(b.testName, b.limit)
            /\ b.kind = "delete" => DOMAIN mem'.configs = (DOMAIN disk.configs) \ {b.testName}
       /\ \A q \in Reqs :
            /\ (ConfigGetRead(r) /\ Settled(q, "set", reqs[r].arg)
                  /\ reqs[r].arg \in DOMAIN disk.configs
                  /\ disk.configs[reqs[r].arg] = TestConfig(reqs[r].arg, reqs[q].arg.limit))
                 => (reqs'[r].loc.kind = "own"
                     /\ reqs'[r].loc.value = TestConfig(reqs[r].arg, reqs[q].arg.limit))
            /\ (ConfigGetRead(r) /\ Settled(q, "delete", reqs[r].arg)
                  /\ reqs[r].arg \notin DOMAIN disk.configs)
                 => reqs'[r].loc.kind = "empty"]_vars

\* C31: the capability flags a login computes from the fetched role list are:
\* isTester iff some role is in the tester role list or is the any-tester
\* role; isEditor iff some role is in the editor role list; canRadio iff the
\* radio instructor role is in the list; canMDT iff the MDT instructor role is.
C31_FlagsFromRoles ==
  [][\A r \in Reqs, s \in Sessions, member \in Answers(RoleLists) :
       Login(r, s, "ok", member) =>
         LET u == reqs'[r].u IN
         /\ u.isTester <=> (member.roles \cap (testerRoles \cup {TESTER_ROLE_ANY}) /= {})
         /\ u.isEditor <=> (member.roles \cap editorRoles /= {})
         /\ u.canRadio <=> (RADIO_INSTR_ROLE \in member.roles)
         /\ u.canMDT <=> (MDT_INSTR_ROLE \in member.roles)]_vars

\* C32: for a login of a tester without a code, the allocation loop ends,
\* whenever a code of the code space is unused, and the code it stores was
\* free (under fair random choice of the candidates).
C32_AllocationTerminates ==
  /\ [][\A r \in Reqs : (reqs[r].pc = "loop" /\ reqs'[r].pc /= "loop") =>
          /\ reqs'[r].pc = "write"
          /\ reqs'[r].loc \notin DOMAIN mem.testers
          /\ mem'.testers = Put(mem.testers, reqs'[r].loc,
                                [userId |-> reqs[r].u.id, createdAt |-> toISOString(now)])]_vars
  /\ \A r \in Reqs :
       (reqs[r].pc = "loop" /\ FreeCodes(mem.testers) /= {}) ~> (reqs[r].pc /= "loop")

\* C32 witness: a handler is in the loop, its last candidate was taken, and
\* a code of the code space is still unused
C32_RetryingWithFreeCodeLeft ==
  \E r \in Reqs :
    /\ reqs[r].pc = "loop" /\ reqs[r].loc \in DOMAIN mem.testers
    /\ FreeCodes(mem.testers) /= {}

\* C33: the roles of every duty record form a set over {radio, mdt, general}:
\* no role name appears twice in a record, whatever the identity's flags.
C33_DutyRolesAreASet ==
  \A id \in DOMAIN mem.duty :
    LET roles == mem.duty[id].roles IN
    /\ \A i \in 1..Len(roles) : roles[i] \in {"radio", "mdt", "general"}
    /\ \A i, j \in 1..Len(roles) : roles[i] = roles[j] => i = j

\* C34: the client registry holds exactly the connections that subscribed
\* with an authenticated session and whose close event has not happened: a
\* subscribe without a session registers nothing, and a connection leaves the
\* registry at its close event and does not come back.
C34_RegistryIsLiveSubscribers ==
  [][/\ {x.res : x \in sseClients'} = {c \in Conns : conn'[c] \in {"open", "dropped"}}
     /\ \A r \in Reqs, s \in Sessions :
          (session[s] = NoUser /\ Events(r, s)) => (sseClients' = sseClients /\ conn' = conn)
     /\ \A r \in Reqs, s \in Sessions :
          (session[s] /= NoUser /\ Events(r, s)) =>
            \E c \in Conns : /\ conn[c] = "unused"
                             /\ sseClients' = sseClients \cup {[res |-> c, id |-> session[s].id]}
     /\ \A c \in Conns : conn[c] = "closed" => conn'[c] = "closed"]_vars

\* C34 witness: one connection has closed and is gone from the registry,
\* another is registered, and a subscribe without a session was answered 401
C34_OneClosedOneLiveOneRefused ==
  /\ \E c, d \in Conns :
       /\ conn[c] = "closed" /\ conn[d] = "open"
       /\ {x.res : x \in sseClients} = {d}
  /\ \E r \in Reqs : reqs[r].op = "events" /\ reqs[r].status = 401

\* C35: once /duty/on has returned ok for u and its write has put the record
\* of u into the persisted document (which is what /duty/list answers from),
\* the record stays there after every later step until u calls /duty/off,
\* whatever other handlers run in between.  Here u = u1, who never goes off
\* duty.
C35_OnDutyUntilOff ==
  [][("u1" \in DOMAIN disk.duty) => ("u1" \in DOMAIN disk'.duty)]_vars

\* C36: a client registered throughout (connection 1, subscribed from the
\* start) receives, for every ping id, the ping event before any ack event
\* of that id, and after an ack of an id no ping event of that id showing
\* status open, whatever the interleaving of create and accept.
C36_PingBeforeAck ==
  LET box == inbox[1] IN
  \A j \in 1..Len(box) :
    box[j].type = "ack" =>
      /\ \E i \in 1..(j - 1) : box[i].type = "ping" /\ box[i].payload.id = box[j].payload.id
      /\ \A i \in (j + 1)..Len(box) :
           ~(/\ box[i].type = "ping" /\ box[i].payload.id = box[j].payload.id
             /\ box[i].payload.status = "open")

\* C37: in every reachable state every submission of the tests collection,
\* in db.data and in the persisted document, has a testerCode that is a key
\* of the testers registry of that document and the userId of that entry.
C37_SubmissionsOfRegisteredCodes ==
  \A doc \in {mem, disk} : \A id \in DOMAIN doc.tests :
    /\ doc.tests[id].testerCode \in DOMAIN doc.testers
    /\ doc.tests[id].userId = doc.testers[doc.tests[id].testerCode].userId

\* C38: create stores whatever testType it is given, without validation, and
\* an accept of a ping whose testType is none of radio, mdt, academie goes
\* through for every authenticated identity, one with no capability flag
\* included.
C38_UnknownTypeOpenToAll ==
  [][\A r \in Reqs :
       /\ \A s \in Sessions, testType \in TestTypeInputs, id \in PingIds :
            (session[s] /= NoUser /\ CallInstructorFresh(r, s, testType, "help", id)) =>
              (reqs'[r].pc = "read" /\ reqs'[r].loc.testType = testType)
       /\ CallRead(r) =>
            (mem'.pings[Len(mem'.pings)].testType = reqs[r].arg /\ reqs'[r].pc = "write")
       /\ AckRead(r) =>
            LET i == FindPing(disk.pings, reqs[r].arg) IN
            (i /= 0 /\ disk.pings[i].testType \notin {"radio", "mdt", "academie"}) =>
              /\ reqs'[r].pc = "write"
              /\ mem'.pings[i].status = "accepted"
              /\ mem'.pings[i].acceptedBy.id = reqs[r].u.id]_vars

\* C38 witness: a ping of testType quiz is in the persisted log, accepted by
\* an identity that has no capability flag, whose accept was answered ok
C38_QuizAcceptedWithoutFlags ==
  \E r \in Reqs :
    /\ reqs[r].op = "ack-ping" /\ reqs[r].pc = "done" /\ reqs[r].status = 200
    /\ ~(reqs[r].u.canRadio \/ reqs[r].u.canMDT \/ reqs[r].u.isTester \/ reqs[r].u.isEditor)
    /\ \E i \in 1..Len(disk.pings) :
         /\ disk.pings[i].id = reqs[r].arg /\ disk.pings[i].testType = "quiz"
         /\ disk.pings[i].status = "accepted" /\ disk.pings[i].acceptedBy.id = reqs[r].u.id

\* C39: in every reachable state of the pings log, in db.data, in the
\* persisted document and in every write under way, a ping has an acceptedBy
\* field if and only if its status is accepted; and create makes every ping
\* with status open and without acceptedBy.
C39_AcceptedByIffAccepted ==
  /\ \A pings \in {mem.pings, disk.pings} \cup {wq[k].snap.pings : k \in 1..Len(wq)} :
       \A i \in 1..Len(pings) :
         /\ pings[i].status \in {"open", "accepted"}
         /\ (pings[i].acceptedBy /= Absent) <=> (pings[i].status = "accepted")
  /\ \A r \in Reqs :
       (reqs[r].op = "call-instructor" /\ reqs[r].pc \in {"read", "write", "written"}) =>
         (reqs[r].loc.status = "open" /\ reqs[r].loc.acceptedBy = Absent)

\* C39 witness: the persisted log holds an accepted ping carrying the
\* identity that accepted it next to an open ping without acceptedBy
C39_AcceptedNextToOpen ==
  \E i, j \in 1..Len(disk.pings) :
    /\ disk.pings[i].status = "accepted" /\ disk.pings[i].acceptedBy /= Absent
    /\ disk.pings[i].acceptedBy.id \in Users
    /\ disk.pings[j].status = "open" /\ disk.pings[j].acceptedBy = Absent

====
